---- MODULE Spec2Model ----
(***************************************************************************)
(* Credential/session lifecycle and tool-dispatch gateway of the Myntra    *)
(* seller MCP server (src/src/index.ts).                                   *)
(*                                                                         *)
(* One task is one invocation (a tool dispatch or one of the /auth HTTP    *)
(* endpoints).  A task advances by one action per `await` of the code: the *)
(* action performs the awaited operation's effect and the synchronous code *)
(* that follows it up to the next await.  The remote API and the Redis     *)
(* client are the environment: every remote call succeeds or fails, and    *)
(* Redis operations succeed exactly while redisUp holds.                   *)
(***************************************************************************)
EXTENDS Integers, Sequences, FiniteSets, TLC

\* ------------------------------------------------------------------ bounds
MaxSeconds == 2

\* ------------------------------------------------------- program constants
MsPerSec == 1000

\* --------------------------------------------------------------- JS values
\* JavaScript values are tagged tuples so that values of different types can
\* be compared.
Undefined == <<"undefined">>
JsonNull == <<"null">>
NaN == <<"NaN">>
Num(n) == <<"number", n>>
AccessTok(n) == <<"string", "T", n>>
RefreshTok(n) == <<"string", "R", n>>
SellerStr(s) == <<"string", s, 0>>
EmptyStr == <<"string", "", 0>>

\* !v of JavaScript, negated.
Truthy(v) == v \notin {Undefined, JsonNull, NaN, Num(0), EmptyStr}

\* a || b
OrElse(a, b) == IF Truthy(a) THEN a ELSE b

\* expires_in * 1000 : undefined * 1000 is NaN.
TimesMs(v) == IF v[1] = "number" THEN Num(v[2] * MsPerSec) ELSE NaN

\* Date.now() + x
NowPlus(t, v) == IF v[1] = "number" THEN Num(t + v[2]) ELSE NaN

\* A variant of NowLessThan: the token still counts at the instant it expires.
NowAtMost(t, v) ==
    CASE v[1] = "number" -> t <= v[2]
      [] v = JsonNull -> t <= 0
      [] OTHER -> FALSE

\* Date.now() < x : a comparison with NaN or undefined is false, null is 0.
NowLessThan(t, v) ==
    CASE v[1] = "number" -> t < v[2]
      [] v = JsonNull -> t < 0
      [] OTHER -> FALSE

\* ------------------------------------------------------------ the accounts
Sellers == {"S1", "S2"}
\* args.seller_id missing (undefined) or the empty string: both are falsy.
Absent == ""
Tasks == {"t1", "t2"}
SerialTasks == {"t1"}
OneSeller == {"S1"}

\* A SellerTokens value that getTokens did not find.
Null == [none |-> TRUE]

SellerTokens(a, r, e, s) ==
    [accessToken |-> a, refreshToken |-> r, expiresOn |-> e, sellerId |-> s]

Fields == {"accessToken", "refreshToken", "expiresOn", "sellerId"}

\* JSON.stringify(tokens): members whose value is undefined are left out and
\* NaN is written as null.  The document is the function from the members
\* written to their values.
JsonStringify(tokens) ==
    LET kept == {f \in Fields : tokens[f] # Undefined}
    IN  [f \in kept |-> IF tokens[f] = NaN THEN JsonNull ELSE tokens[f]]

\* JSON.parse(tokensData): reading a member that is not there gives undefined.
JsonParse(doc) ==
    [f \in Fields |-> IF f \in DOMAIN doc THEN doc[f] ELSE Undefined]

\* ------------------------------------------------------------------- state
VARIABLES
    redis,         \* this.redis is set (REDIS_URL was configured)
    redisUp,       \* the Redis client's commands currently succeed
    redisStore,    \* Redis: myntra_tokens:<sellerId> -> JSON document or Null
    sellerTokens,  \* this.sellerTokens: sellerId -> SellerTokens or Null
    now,           \* Date.now()
    task,          \* the invocations in progress, one record per task
    everAuth,      \* history: sellers for which an authenticate has succeeded
    call           \* the tool handler call under study: arguments and request

vars == <<redis, redisUp, redisStore, sellerTokens, now, task, everAuth, call>>

\* No handler call is under study.
NoCall == [tool |-> "none"]

\* ------------------------------------------------------------- token store
\* storeTokens(sellerId, tokens)
StoreTokens(sellerId, tokens) ==
    IF redis
    THEN IF redisUp
         THEN /\ redisStore' = [redisStore EXCEPT ![sellerId] = JsonStringify(tokens)]
              /\ UNCHANGED sellerTokens
         ELSE /\ sellerTokens' = [sellerTokens EXCEPT ![sellerId] = tokens]
              /\ UNCHANGED redisStore
    ELSE /\ sellerTokens' = [sellerTokens EXCEPT ![sellerId] = tokens]
         /\ UNCHANGED redisStore

\* The three operations of a server without REDIS_URL: lines 275, 289, 301.
MemStoreTokens(sellerId, tokens) ==
    /\ sellerTokens' = [sellerTokens EXCEPT ![sellerId] = tokens]
    /\ UNCHANGED redisStore

MemGetTokens(sellerId) == sellerTokens[sellerId]

MemRevokeTokens(sellerId) ==
    /\ sellerTokens' = [sellerTokens EXCEPT ![sellerId] = Null]
    /\ UNCHANGED redisStore

\* A variant of GetTokens: a failed Redis read answers null.
GetTokensNoFallback(sellerId) ==
    IF redis
    THEN IF redisUp
         THEN IF redisStore[sellerId] # Null
              THEN JsonParse(redisStore[sellerId])
              ELSE Null
         ELSE Null
    ELSE sellerTokens[sellerId]

\* getTokens(sellerId)
GetTokens(sellerId) ==
    IF redis
    THEN IF redisUp
         THEN IF redisStore[sellerId] # Null
              THEN JsonParse(redisStore[sellerId])
              ELSE Null
         ELSE sellerTokens[sellerId]
    ELSE sellerTokens[sellerId]

\* A variant of RevokeTokens: every account's session is deleted.
RevokeTokensAll(sellerId) ==
    /\ redisStore' = IF redis /\ redisUp
                     THEN [s \in Sellers |-> Null]
                     ELSE redisStore
    /\ sellerTokens' = [s \in Sellers |-> Null]

\* revokeTokens(sellerId)
RevokeTokens(sellerId) ==
    /\ redisStore' = IF redis /\ redisUp
                     THEN [redisStore EXCEPT ![sellerId] = Null]
                     ELSE redisStore
    /\ sellerTokens' = [sellerTokens EXCEPT ![sellerId] = Null]

\* The token store of the stdio variant: a Map and nothing else.
StdioStoreTokens(sellerId, tokens) ==
    sellerTokens' = [sellerTokens EXCEPT ![sellerId] = tokens]

\* `this.sellerTokens.get(sellerId) || null`
StdioGetTokens(sellerId) ==
    IF sellerTokens[sellerId] # Null THEN sellerTokens[sellerId] ELSE Null

\* A variant of StdioRevokeTokens: the entry is kept.
StdioRevokeTokensKeeping(sellerId) ==
    sellerTokens' = sellerTokens

StdioRevokeTokens(sellerId) ==
    sellerTokens' = [sellerTokens EXCEPT ![sellerId] = Null]

\* ------------------------------------------------------------------ remote
\* The remote's answers to POST /auth/token and POST /auth/refresh: a token
\* pair, with members possibly missing from the payload.
TokenIds == {1, 2}

Data(a, r, e) == [access_token |-> a, refresh_token |-> r, expires_in |-> e]

Responses ==
    UNION {{Data(AccessTok(n), RefreshTok(n), Num(1)),
            Data(AccessTok(n), RefreshTok(n), Num(0)),
            Data(AccessTok(n), RefreshTok(n), Undefined),
            Data(AccessTok(n), Undefined, Num(1)),
            Data(Undefined, RefreshTok(n), Num(1))} : n \in TokenIds}

\* Complete payloads only.
PlainResponses ==
    UNION {{Data(AccessTok(n), RefreshTok(n), Num(1)),
            Data(AccessTok(n), RefreshTok(n), Num(0))} : n \in TokenIds}

NoData == Data(Undefined, Undefined, Undefined)

\* ------------------------------------------------------------------- tasks
ToolNames == {"myntra_authenticate", "myntra_status", "myntra_list_products",
              "myntra_unlisted"}
\* The names handleMyntraOperation routes to a handler; one stands for all.
Catalog == {"myntra_list_products"}
HttpNames == {"POST /auth/login", "GET /auth/status", "POST /auth/logout"}

NoPrior == [tag |-> "none", seller |-> Absent, created |-> Null]

NoResult ==
    [kind |-> "none", isError |-> FALSE, thrown |-> FALSE, sellerId |-> Undefined,
     message |-> ""]

NoCreds == <<Absent, Absent>>

IdleTask ==
    [pc |-> "idle", name |-> "", seller |-> Absent, tokens |-> Null,
     pending |-> Null, refreshed |-> NoData, authed |-> "none", handler |-> FALSE,
     bearer |-> Undefined, refreshCalls |-> 0, tokenCalls |-> 0,
     apiCalls |-> 0, result |-> NoResult,
     creds |-> NoCreds,     \* the api_key and api_secret of the call's arguments
     changed |-> FALSE,     \* history: it changed an entry of the token store
     prior |-> NoPrior]     \* history, kept for the first step only: how the
                            \* client's previous call ended

\* The invocation returns (thrown = FALSE) or throws (thrown = TRUE).
Done(tk, kind, isError, thrown, reported) ==
    [tk EXCEPT !.pc = "done", !.tokens = Null, !.prior = NoPrior,
               !.creds = IF kind = "already_authenticated" THEN @ ELSE NoCreds,
               !.pending = IF kind = "auth_success" THEN @ ELSE Null,
               !.result = [kind |-> kind, isError |-> isError,
                           thrown |-> thrown, sellerId |-> reported,
                           message |-> ""]]

\* The message of the Error that ended the handler.
WithMessage(tk, message) == [tk EXCEPT !.result.message = message]

\* A variant of CheckEval: an account without tokens passes.
CheckEvalNoTokens(tokens, t) ==
    IF tokens = Null THEN "true"
    ELSE IF ~Truthy(tokens.accessToken) THEN "false"
    ELSE IF Truthy(tokens.expiresOn) /\ NowLessThan(t, tokens.expiresOn) THEN "true"
    ELSE IF Truthy(tokens.refreshToken) THEN "refresh"
    ELSE "false"

\* A variant of CheckEval: a refresh is tried without a refresh token.
CheckEvalAlwaysRefresh(tokens, t) ==
    IF tokens = Null \/ ~Truthy(tokens.accessToken) THEN "false"
    ELSE IF Truthy(tokens.expiresOn) /\ NowLessThan(t, tokens.expiresOn) THEN "true"
    ELSE "refresh"

\* checkAuthentication, lines 305-315: what the tokens read decide.
CheckEval(tokens, t) ==
    IF tokens = Null \/ ~Truthy(tokens.accessToken) THEN "false"
    ELSE IF Truthy(tokens.expiresOn) /\ NowLessThan(t, tokens.expiresOn) THEN "true"
    ELSE IF Truthy(tokens.refreshToken) THEN "refresh"
    ELSE "false"

\* A variant of AfterCheck: the dispatch does not look at what
\* checkAuthentication returned before it runs the tool's handler.
AfterCheckUngated(tk, b) ==
    LET c == [tk EXCEPT !.authed = IF b THEN "true" ELSE "false"]
    IN  CASE tk.name = "myntra_authenticate" ->
                IF b THEN Done(c, "already_authenticated", FALSE, FALSE, SellerStr(tk.seller))
                ELSE [c EXCEPT !.pc = "token", !.tokenCalls = @ + 1]
          [] tk.name = "myntra_status" ->
                IF b THEN [c EXCEPT !.pc = "api_get"]
                ELSE Done(c, "status_not_connected", FALSE, FALSE, Undefined)
          [] tk.name = "GET /auth/status" ->
                IF b THEN [c EXCEPT !.pc = "status_get"]
                ELSE Done(c, "http_status_unauthenticated", FALSE, FALSE, Undefined)
          [] OTHER ->
                IF tk.name \in Catalog
                THEN [c EXCEPT !.pc = "api_get", !.handler = TRUE]
                ELSE WithMessage(Done([c EXCEPT !.handler = TRUE], "mcp_error",
                                          FALSE, TRUE, Undefined),
                                     "Unknown operation")

\* A variant of AfterCheck: an authenticate with a session in place goes on
\* to the token request unless its credentials are the first pair.
AfterCheckComparing(tk, b) ==
    LET c == [tk EXCEPT !.authed = IF b THEN "true" ELSE "false"]
    IN  CASE tk.name = "myntra_authenticate" ->
                IF b /\ tk.creds = <<"k", "k">>
                THEN Done(c, "already_authenticated", FALSE, FALSE, SellerStr(tk.seller))
                ELSE [c EXCEPT !.pc = "token", !.tokenCalls = @ + 1]
          [] tk.name = "myntra_status" ->
                IF b THEN [c EXCEPT !.pc = "api_get"]
                ELSE Done(c, "status_not_connected", FALSE, FALSE, Undefined)
          [] tk.name = "GET /auth/status" ->
                IF b THEN [c EXCEPT !.pc = "status_get"]
                ELSE Done(c, "http_status_unauthenticated", FALSE, FALSE, Undefined)
          [] OTHER ->
                IF ~b THEN Done(c, "not_authenticated", TRUE, FALSE, Undefined)
                ELSE IF tk.name \in Catalog
                     THEN [c EXCEPT !.pc = "api_get", !.handler = TRUE]
                     ELSE WithMessage(Done([c EXCEPT !.handler = TRUE], "mcp_error",
                                          FALSE, TRUE, Undefined),
                                     "Unknown operation")

\* The caller's code after `await this.checkAuthentication(...)` returned b,
\* up to its next await.
AfterCheck(tk, b) ==
    LET c == [tk EXCEPT !.authed = IF b THEN "true" ELSE "false"]
    IN  CASE tk.name = "myntra_authenticate" ->
                IF b THEN Done(c, "already_authenticated", FALSE, FALSE, SellerStr(tk.seller))
                ELSE [c EXCEPT !.pc = "token", !.tokenCalls = @ + 1]
          [] tk.name = "myntra_status" ->
                IF b THEN [c EXCEPT !.pc = "api_get"]
                ELSE Done(c, "status_not_connected", FALSE, FALSE, Undefined)
          [] tk.name = "GET /auth/status" ->
                IF b THEN [c EXCEPT !.pc = "status_get"]
                ELSE Done(c, "http_status_unauthenticated", FALSE, FALSE, Undefined)
          [] OTHER ->
                IF ~b THEN Done(c, "not_authenticated", TRUE, FALSE, Undefined)
                ELSE IF tk.name \in Catalog
                     THEN [c EXCEPT !.pc = "api_get", !.handler = TRUE]
                     ELSE WithMessage(Done([c EXCEPT !.handler = TRUE], "mcp_error",
                                          FALSE, TRUE, Undefined),
                                     "Unknown operation")

Idle(t) == task[t].pc \in {"idle", "done"}

\* A client that waits for each reply before its next request.
Quiet == \A u \in Tasks : Idle(u)

\* history: what the invocation that just ended did, for the next one.
Outcome(tk) ==
    [tag |-> CASE tk.result.kind = "auth_success" -> "authenticated"
               [] tk.result.kind = "http_logout_200" -> "revoked"
               [] tk.refreshCalls > 0 /\ tk.refreshed = NoData -> "refresh_failed"
               [] OTHER -> "other",
     seller |-> tk.seller,
     created |-> tk.pending]

Entries(sellerId) ==
    IF sellerId = Absent THEN Null
    ELSE [mem |-> sellerTokens[sellerId], red |-> redisStore[sellerId]]

\* The entries in the state an action leads to.
EntriesAfter(sellerId) ==
    [mem |-> sellerTokens'[sellerId], red |-> redisStore'[sellerId]]

Begin(t, name, sellerId) ==
    [IdleTask EXCEPT !.name = name, !.seller = sellerId,
                     !.prior = IF task[t].pc = "done" THEN Outcome(task[t]) ELSE NoPrior]

\* --------------------------------------------------------------- actions
\* A variant of Dispatch: a gated tool is run without looking at seller_id.
DispatchUnvalidated(t, name, sellerId, apiKey, apiSecret) ==
    /\ name # "myntra_authenticate" => apiKey = Absent /\ apiSecret = Absent
    /\ Idle(t)
    /\ LET b == Begin(t, name, sellerId)
       IN task' = [task EXCEPT ![t] =
            CASE name = "myntra_authenticate" ->
                    IF sellerId = Absent \/ apiKey = Absent \/ apiSecret = Absent
                    THEN Done(b, "auth_missing_args", TRUE, FALSE, Undefined)
                    ELSE [b EXCEPT !.pc = "check", !.creds = <<apiKey, apiSecret>>]
              [] name = "myntra_status" ->
                    IF sellerId = Absent
                    THEN Done(b, "status_seller_required", TRUE, FALSE, Undefined)
                    ELSE [b EXCEPT !.pc = "check"]
              [] OTHER ->
                    IF sellerId = Absent
                    THEN [b EXCEPT !.pc = "api_wait", !.handler = TRUE,
                                   !.apiCalls = @ + 1]
                    ELSE [b EXCEPT !.pc = "check"]]
    /\ UNCHANGED <<redis, redisUp, redisStore, sellerTokens, now, everAuth, call>>

\* A variant of Dispatch: authenticate looks at seller_id only.
DispatchSellerOnly(t, name, sellerId, apiKey, apiSecret) ==
    /\ name # "myntra_authenticate" => apiKey = Absent /\ apiSecret = Absent
    /\ Idle(t)
    /\ LET b == Begin(t, name, sellerId)
       IN task' = [task EXCEPT ![t] =
            CASE name = "myntra_authenticate" ->
                    IF sellerId = Absent
                    THEN Done(b, "auth_missing_args", TRUE, FALSE, Undefined)
                    ELSE [b EXCEPT !.pc = "check", !.creds = <<apiKey, apiSecret>>]
              [] name = "myntra_status" ->
                    IF sellerId = Absent
                    THEN Done(b, "status_seller_required", TRUE, FALSE, Undefined)
                    ELSE [b EXCEPT !.pc = "check"]
              [] OTHER ->
                    IF sellerId = Absent
                    THEN Done(b, "seller_id_required", TRUE, FALSE, Undefined)
                    ELSE [b EXCEPT !.pc = "check"]]
    /\ UNCHANGED <<redis, redisUp, redisStore, sellerTokens, now, everAuth, call>>

\* CallToolRequestSchema handler, to its first await.
Dispatch(t, name, sellerId, apiKey, apiSecret) ==
    /\ name # "myntra_authenticate" => apiKey = Absent /\ apiSecret = Absent
    /\ Idle(t)
    /\ LET b == Begin(t, name, sellerId)
       IN task' = [task EXCEPT ![t] =
            CASE name = "myntra_authenticate" ->
                    IF sellerId = Absent \/ apiKey = Absent \/ apiSecret = Absent
                    THEN Done(b, "auth_missing_args", TRUE, FALSE, Undefined)
                    ELSE [b EXCEPT !.pc = "check", !.creds = <<apiKey, apiSecret>>]
              [] name = "myntra_status" ->
                    IF sellerId = Absent
                    THEN Done(b, "status_seller_required", TRUE, FALSE, Undefined)
                    ELSE [b EXCEPT !.pc = "check"]
              [] OTHER ->
                    IF sellerId = Absent
                    THEN Done(b, "seller_id_required", TRUE, FALSE, Undefined)
                    ELSE [b EXCEPT !.pc = "check"]]
    /\ UNCHANGED <<redis, redisUp, redisStore, sellerTokens, now, everAuth, call>>

\* POST /auth/login, to its first await.
Login(t, sellerId, apiKey, apiSecret) ==
    /\ Idle(t)
    /\ LET b == Begin(t, "POST /auth/login", sellerId)
       IN task' = [task EXCEPT ![t] =
            IF sellerId = Absent \/ apiKey = Absent \/ apiSecret = Absent
            THEN Done(b, "http_login_400", TRUE, FALSE, Undefined)
            ELSE [b EXCEPT !.pc = "token", !.tokenCalls = @ + 1,
                           !.creds = <<apiKey, apiSecret>>]]
    /\ UNCHANGED <<redis, redisUp, redisStore, sellerTokens, now, everAuth, call>>

\* GET /auth/status/:sellerId, to its first await.
AuthStatus(t, sellerId) ==
    /\ Idle(t)
    /\ task' = [task EXCEPT ![t] =
            [Begin(t, "GET /auth/status", sellerId) EXCEPT !.pc = "check"]]
    /\ UNCHANGED <<redis, redisUp, redisStore, sellerTokens, now, everAuth, call>>

\* POST /auth/logout/:sellerId, to its first await.
Logout(t, sellerId) ==
    /\ Idle(t)
    /\ task' = [task EXCEPT ![t] =
            [Begin(t, "POST /auth/logout", sellerId) EXCEPT !.pc = "revoke"]]
    /\ UNCHANGED <<redis, redisUp, redisStore, sellerTokens, now, everAuth, call>>

\* checkAuthentication: getTokens answers; lines 305-319.
CheckRead(t) ==
    /\ task[t].pc = "check"
    /\ LET tokens == GetTokens(task[t].seller)
           tk == [task[t] EXCEPT !.tokens = tokens, !.prior = NoPrior]
           r == CheckEval(tokens, now)
       IN task' = [task EXCEPT ![t] =
            CASE r = "true" -> AfterCheck(tk, TRUE)
              [] r = "false" -> AfterCheck(tk, FALSE)
              [] OTHER -> [tk EXCEPT !.pc = "refresh", !.refreshCalls = @ + 1]]
    /\ UNCHANGED <<redis, redisUp, redisStore, sellerTokens, now, everAuth, call>>

\* A variant of UpdatedTokens: the refresh token is taken from the answer only.
UpdatedTokensNoFallback(tokens, data, sellerId, t) ==
    SellerTokens(data.access_token,
                 data.refresh_token,
                 NowPlus(t, TimesMs(data.expires_in)),
                 SellerStr(sellerId))

\* checkAuthentication, lines 321-326: the tokens built from a refresh answer.
UpdatedTokens(tokens, data, sellerId, t) ==
    SellerTokens(data.access_token,
                 OrElse(data.refresh_token, tokens.refreshToken),
                 NowPlus(t, TimesMs(data.expires_in)),
                 SellerStr(sellerId))

\* POST /auth/refresh answers 2xx; lines 321-328.
RefreshOk(t, data) ==
    /\ task[t].pc = "refresh"
    /\ task' = [task EXCEPT ![t].pc = "store", ![t].refreshed = data,
                            ![t].pending = UpdatedTokens(task[t].tokens, data,
                                                         task[t].seller, now)]
    /\ UNCHANGED <<redis, redisUp, redisStore, sellerTokens, now, everAuth, call>>

\* POST /auth/refresh fails; lines 330-332.
\* A variant of RefreshFail: a refresh that failed is tried once more.
RefreshFailRetry(t) ==
    /\ task[t].pc = "refresh"
    /\ task' = [task EXCEPT ![t] =
                  IF @.refreshCalls < 2 THEN [@ EXCEPT !.refreshCalls = @ + 1]
                  ELSE [@ EXCEPT !.pc = "revoke"]]
    /\ UNCHANGED <<redis, redisUp, redisStore, sellerTokens, now, everAuth, call>>

RefreshFail(t) ==
    /\ task[t].pc = "refresh"
    /\ task' = [task EXCEPT ![t].pc = "revoke"]
    /\ UNCHANGED <<redis, redisUp, redisStore, sellerTokens, now, everAuth, call>>

\* A variant of IssuedTokens: the session does not name its account.
IssuedTokensNoSeller(data, sellerId, t) ==
    SellerTokens(data.access_token, data.refresh_token,
                 NowPlus(t, TimesMs(data.expires_in)), Undefined)

\* handleAuthenticate lines 789-794, /auth/login lines 173-178.
IssuedTokens(data, sellerId, t) ==
    SellerTokens(data.access_token, data.refresh_token,
                 NowPlus(t, TimesMs(data.expires_in)), SellerStr(sellerId))

\* POST /auth/token answers 2xx.
TokenOk(t, data) ==
    /\ task[t].pc = "token"
    /\ task' = [task EXCEPT ![t].pc = "store_issued", ![t].prior = NoPrior,
                            ![t].pending = IssuedTokens(data, task[t].seller, now)]
    /\ UNCHANGED <<redis, redisUp, redisStore, sellerTokens, now, everAuth, call>>

\* POST /auth/token fails: the catch blocks at lines 804 and 189.
TokenFail(t) ==
    /\ task[t].pc = "token"
    /\ task' = [task EXCEPT ![t] =
            IF task[t].name = "myntra_authenticate"
            THEN Done(task[t], "auth_failed", TRUE, FALSE, Undefined)
            ELSE Done(task[t], "http_login_401", TRUE, FALSE, Undefined)]
    /\ UNCHANGED <<redis, redisUp, redisStore, sellerTokens, now, everAuth, call>>

\* `await this.storeTokens(...)` completes, and the code after it.
Store(t) ==
    /\ task[t].pc \in {"store", "store_issued"}
    /\ StoreTokens(task[t].seller, task[t].pending)
    /\ LET tk == [task[t] EXCEPT !.changed =
                    @ \/ EntriesAfter(task[t].seller) # Entries(task[t].seller)]
       IN IF tk.pc = "store"
          THEN /\ task' = [task EXCEPT ![t] = AfterCheck(tk, TRUE)]
               /\ UNCHANGED everAuth
          ELSE /\ task' = [task EXCEPT ![t] =
                   IF tk.name = "myntra_authenticate"
                   THEN Done(tk, "auth_success", FALSE, FALSE, SellerStr(tk.seller))
                   ELSE Done(tk, "http_login_200", FALSE, FALSE, SellerStr(tk.seller))]
               /\ everAuth' = everAuth \cup {tk.seller}
    /\ UNCHANGED <<redis, redisUp, now, call>>

\* `await this.revokeTokens(...)` completes, and the code after it.
Revoke(t) ==
    /\ task[t].pc = "revoke"
    /\ RevokeTokens(task[t].seller)
    /\ LET tk == [task[t] EXCEPT !.changed =
                    @ \/ EntriesAfter(task[t].seller) # Entries(task[t].seller)]
       IN task' = [task EXCEPT ![t] =
            IF tk.name = "POST /auth/logout"
            THEN Done(tk, "http_logout_200", FALSE, FALSE, Undefined)
            ELSE AfterCheck(tk, FALSE)]
    /\ UNCHANGED <<redis, redisUp, now, everAuth, call>>

\* A variant of ApiRead: the request is sent whatever getTokens found.
ApiReadUnchecked(t) ==
    /\ task[t].pc = "api_get"
    /\ LET tokens == GetTokens(task[t].seller)
       IN task' = [task EXCEPT ![t] =
            [task[t] EXCEPT !.pc = "api_wait", !.apiCalls = @ + 1,
                            !.bearer = IF tokens = Null THEN Undefined
                                       ELSE tokens.accessToken]]
    /\ UNCHANGED <<redis, redisUp, redisStore, sellerTokens, now, everAuth, call>>

\* makeApiRequest: getTokens answers; lines 340-354.  A throw is caught by
\* handleStatus (line 836) or rethrown by the dispatch as McpError (line 750).
ApiRead(t) ==
    /\ task[t].pc = "api_get"
    /\ LET tokens == GetTokens(task[t].seller)
       IN task' = [task EXCEPT ![t] =
            IF tokens = Null \/ ~Truthy(tokens.accessToken)
            THEN WithMessage(
                    IF task[t].name = "myntra_status"
                    THEN Done(task[t], "status_partial", FALSE, FALSE, Undefined)
                    ELSE Done(task[t], "mcp_error", FALSE, TRUE, Undefined),
                    "Not authenticated")
            ELSE [task[t] EXCEPT !.pc = "api_wait", !.apiCalls = @ + 1,
                                 !.bearer = tokens.accessToken]]
    /\ UNCHANGED <<redis, redisUp, redisStore, sellerTokens, now, everAuth, call>>

\* The resource request answers 2xx with a payload the handler can render.
ApiOk(t) ==
    /\ task[t].pc = "api_wait"
    /\ task' = [task EXCEPT ![t] =
            IF task[t].name = "myntra_status"
            THEN Done(task[t], "status_connected", FALSE, FALSE, SellerStr(task[t].seller))
            ELSE Done(task[t], "tool_ok", FALSE, FALSE, Undefined)]
    /\ UNCHANGED <<redis, redisUp, redisStore, sellerTokens, now, everAuth, call>>

\* A variant of ApiFail: handleStatus does not catch the failed fetch.
ApiFailUncaught(t) ==
    /\ task[t].pc = "api_wait"
    /\ task' = [task EXCEPT ![t] =
            WithMessage(Done(task[t], "mcp_error", FALSE, TRUE, Undefined),
                        "remote error")]
    /\ UNCHANGED <<redis, redisUp, redisStore, sellerTokens, now, everAuth, call>>

\* A variant of ApiFail: a failed request deletes the account's session.
ApiFailRevoking(t) ==
    /\ task[t].pc = "api_wait"
    /\ RevokeTokens(task[t].seller)
    /\ task' = [task EXCEPT ![t] =
            WithMessage(
                IF task[t].name = "myntra_status"
                THEN Done(task[t], "status_partial", FALSE, FALSE, Undefined)
                ELSE Done(task[t], "mcp_error", FALSE, TRUE, Undefined),
                "remote error")]
    /\ UNCHANGED <<redis, redisUp, now, everAuth, call>>

\* The resource request fails (line 357), or its payload makes the handler
\* throw while rendering.
ApiFail(t) ==
    /\ task[t].pc = "api_wait"
    /\ task' = [task EXCEPT ![t] =
            WithMessage(
                IF task[t].name = "myntra_status"
                THEN Done(task[t], "status_partial", FALSE, FALSE, Undefined)
                ELSE Done(task[t], "mcp_error", FALSE, TRUE, Undefined),
                "remote error")]
    /\ UNCHANGED <<redis, redisUp, redisStore, sellerTokens, now, everAuth, call>>

\* GET /auth/status: `await this.getTokens(sellerId)` answers; lines 206-212.
StatusRead(t) ==
    /\ task[t].pc = "status_get"
    /\ LET tokens == GetTokens(task[t].seller)
       IN task' = [task EXCEPT ![t] =
            Done(task[t], "http_status_authenticated", FALSE, FALSE,
                 IF tokens = Null THEN Undefined ELSE tokens.sellerId)]
    /\ UNCHANGED <<redis, redisUp, redisStore, sellerTokens, now, everAuth, call>>

\* ----------------------------------------------------------- tool handlers
\* The part of a tool handler that runs before makeApiRequest: the request
\* it builds from the call's arguments, and the labelled lines of the text it
\* renders that do not come from the remote's answer.
Str(s) == <<"string", s, 0>>

\* A destructuring default `{ a = d } = args`: used when a is undefined.
Default(v, d) == IF v = Undefined THEN d ELSE v

\* String(v), as URLSearchParams.append and toString() apply it: the decimal
\* text of a number, the text "undefined" for undefined.
ToText(v) ==
    CASE v[1] = "number" -> <<"string", "decimal", v[2]>>
      [] v = Undefined -> Str("undefined")
      [] OTHER -> v

\* params.append(name, v)
Param(name, v) == <<name, ToText(v)>>

\* `if (c) params.append(...)`
When(c, params) == IF c THEN params ELSE <<>>

ArgNames == {"status", "category", "limit", "offset", "from_date", "to_date",
             "metric", "tracking_id", "courier_partner"}

NoArgs == [a \in ArgNames |-> Undefined]

\* An object literal whose members are added under a condition.
Members(pairs) == {p \in pairs : p[2] # Undefined}

ListProducts(args) ==
    LET status == Default(args.status, Str("all"))
        limit == Default(args.limit, Num(50))
        offset == Default(args.offset, Num(0))
    IN  [request |-> [method |-> "GET", path |-> "/products",
                      query |-> When(status # Str("all"), <<Param("status", status)>>)
                                \o When(Truthy(args.category),
                                        <<Param("category", args.category)>>)
                                \o <<Param("limit", limit), Param("offset", offset)>>,
                      body |-> {}],
         labels |-> {}]

ListOrders(args) ==
    LET status == Default(args.status, Str("all"))
        limit == Default(args.limit, Num(50))
    IN  [request |-> [method |-> "GET", path |-> "/orders",
                      query |-> When(status # Str("all"), <<Param("status", status)>>)
                                \o When(Truthy(args.from_date),
                                        <<Param("from_date", args.from_date)>>)
                                \o When(Truthy(args.to_date),
                                        <<Param("to_date", args.to_date)>>)
                                \o <<Param("limit", limit)>>,
                      body |-> {}],
         labels |-> {}]

\* A variant of UpdateOrderStatus that always renders the tracking line.
UpdateOrderStatusAlwaysLine(args) ==
    [request |-> [method |-> "PATCH", path |-> "/orders/:order_id/status",
                  query |-> <<>>,
                  body |-> Members({<<"status", args.status>>,
                                    <<"tracking_id",
                                      IF Truthy(args.tracking_id)
                                      THEN args.tracking_id ELSE Undefined>>,
                                    <<"courier_partner",
                                      IF Truthy(args.courier_partner)
                                      THEN args.courier_partner ELSE Undefined>>})],
     labels |-> {"Order ID", "New Status", "Tracking ID", "Updated"}]

UpdateOrderStatus(args) ==
    [request |-> [method |-> "PATCH", path |-> "/orders/:order_id/status",
                  query |-> <<>>,
                  body |-> Members({<<"status", args.status>>,
                                    <<"tracking_id",
                                      IF Truthy(args.tracking_id)
                                      THEN args.tracking_id ELSE Undefined>>,
                                    <<"courier_partner",
                                      IF Truthy(args.courier_partner)
                                      THEN args.courier_partner ELSE Undefined>>})],
     labels |-> {"Order ID", "New Status", "Updated"}
                \cup (IF Truthy(args.tracking_id) THEN {"Tracking ID"} ELSE {})]

GetReturns(args) ==
    LET status == Default(args.status, Str("pending"))
        limit == Default(args.limit, Num(25))
    IN  [request |-> [method |-> "GET", path |-> "/returns",
                      query |-> When(status # Str("all"), <<Param("status", status)>>)
                                \o <<Param("limit", limit)>>,
                      body |-> {}],
         labels |-> {}]

GetAnalytics(args) ==
    [request |-> [method |-> "GET", path |-> "/analytics",
                  query |-> <<Param("metric", args.metric)>>
                            \o When(Truthy(args.from_date),
                                    <<Param("from_date", args.from_date)>>)
                            \o When(Truthy(args.to_date),
                                    <<Param("to_date", args.to_date)>>),
                  body |-> {}],
     labels |-> IF args.metric = Str("sales") THEN {"Sales Analytics"}
                ELSE IF args.metric = Str("orders") THEN {"Order Analytics"}
                ELSE {}]

\* The `default` members of each tool's inputSchema in the catalog.
CatalogDefaults(tool) ==
    CASE tool = "myntra_list_products" ->
           [status |-> Str("all"), limit |-> Num(50), offset |-> Num(0)]
      [] tool = "myntra_list_orders" -> [status |-> Str("all"), limit |-> Num(50)]
      [] tool = "myntra_get_returns" -> [status |-> Str("pending"), limit |-> Num(25)]
      [] tool = "myntra_get_analytics" -> [metric |-> Str("sales")]
      [] OTHER -> [none |-> Undefined]

HandlerTools == {"myntra_list_products", "myntra_list_orders",
                 "myntra_update_order_status", "myntra_get_returns",
                 "myntra_get_analytics"}

\* handleMyntraOperation, for the handlers above.
RunHandler(tool, args) ==
    CASE tool = "myntra_list_products" -> ListProducts(args)
      [] tool = "myntra_list_orders" -> ListOrders(args)
      [] tool = "myntra_update_order_status" -> UpdateOrderStatus(args)
      [] tool = "myntra_get_returns" -> GetReturns(args)
      [] tool = "myntra_get_analytics" -> GetAnalytics(args)

\* The arguments a client sends with a call of each tool: every optional
\* argument absent, at its catalog default, or at another value.
ArgsOf(tool) ==
    CASE tool = "myntra_list_products" ->
           {[NoArgs EXCEPT !.status = s, !.category = c, !.limit = l, !.offset = o] :
              s \in {Undefined, Str("all"), Str("active")},
              c \in {Undefined, Str("shoes")},
              l \in {Undefined, Num(50), Num(10)},
              o \in {Undefined, Num(0), Num(5)}}
      [] tool = "myntra_list_orders" ->
           {[NoArgs EXCEPT !.status = s, !.from_date = f, !.limit = l] :
              s \in {Undefined, Str("all"), Str("shipped")},
              f \in {Undefined, Str("2024-01-01")},
              l \in {Undefined, Num(50), Num(10)}}
      [] tool = "myntra_update_order_status" ->
           {[NoArgs EXCEPT !.status = s, !.tracking_id = k, !.courier_partner = c] :
              s \in {Str("ready_to_ship"), Str("shipped"), Str("cancelled")},
              k \in {Undefined, EmptyStr, Str("TRK1")},
              c \in {Undefined, Str("courier")}}
      [] tool = "myntra_get_returns" ->
           {[NoArgs EXCEPT !.status = s, !.limit = l] :
              s \in {Undefined, Str("pending"), Str("all"), Str("approved")},
              l \in {Undefined, Num(25), Num(10)}}
      [] tool = "myntra_get_analytics" ->
           {[NoArgs EXCEPT !.metric = m, !.from_date = f] :
              m \in {Undefined, Str("sales"), Str("orders")},
              f \in {Undefined, Str("2024-01-01")}}

\* One run of a handler up to its makeApiRequest, and the text it renders
\* once the remote has answered.
HandlerCall(tool, args) ==
    /\ call' = [tool |-> tool, args |-> args, made |-> RunHandler(tool, args)]
    /\ UNCHANGED <<redis, redisUp, redisStore, sellerTokens, now, task, everAuth>>

\* ---------------------------------------------------------------- readiness
\* A variant of Ready: the probe answers without the ping.
ReadyWithoutPing ==
    /\ call' = [tool |-> "GET /ready", status |-> 200, body |-> "ready"]
    /\ UNCHANGED <<redis, redisUp, redisStore, sellerTokens, now, task, everAuth>>

\* GET /ready: `await this.redis.ping()` when a client is set, then the answer.
Ready ==
    /\ call' = IF redis /\ ~redisUp
               THEN [tool |-> "GET /ready", status |-> 503, body |-> "not ready"]
               ELSE [tool |-> "GET /ready", status |-> 200, body |-> "ready"]
    /\ UNCHANGED <<redis, redisUp, redisStore, sellerTokens, now, task, everAuth>>

\* ----------------------------------------------------------- environment
Tick ==
    /\ now + MsPerSec <= MaxSeconds * MsPerSec
    /\ now' = now + MsPerSec
    /\ UNCHANGED <<redis, redisUp, redisStore, sellerTokens, task, everAuth, call>>

RedisFails ==
    /\ redis /\ redisUp
    /\ redisUp' = FALSE
    /\ UNCHANGED <<redis, redisStore, sellerTokens, now, task, everAuth, call>>

RedisRecovers ==
    /\ redis /\ ~redisUp
    /\ redisUp' = TRUE
    /\ UNCHANGED <<redis, redisStore, sellerTokens, now, task, everAuth, call>>

\* ------------------------------------------------------------------ specs
Init ==
    /\ redis \in BOOLEAN
    /\ redisUp = redis
    /\ redisStore = [s \in Sellers |-> Null]
    /\ sellerTokens = [s \in Sellers |-> Null]
    /\ now = MsPerSec
    /\ task = [t \in Tasks |-> IdleTask]
    /\ everAuth = {}
    /\ call = NoCall

Credentials == {"k", Absent}

Step(t, responses) ==
    \/ CheckRead(t)
    \/ \E data \in responses : RefreshOk(t, data)
    \/ RefreshFail(t)
    \/ \E data \in responses : TokenOk(t, data)
    \/ TokenFail(t)
    \/ Store(t)
    \/ Revoke(t)
    \/ ApiRead(t)
    \/ ApiOk(t)
    \/ ApiFail(t)
    \/ StatusRead(t)

Request(t, accounts) ==
    \/ \E name \in ToolNames, sellerId \in accounts \cup {Absent},
          apiKey \in Credentials, apiSecret \in Credentials :
            Dispatch(t, name, sellerId, apiKey, apiSecret)
    \/ \E sellerId \in accounts \cup {Absent},
          apiKey \in Credentials, apiSecret \in Credentials :
            Login(t, sellerId, apiKey, apiSecret)
    \/ \E sellerId \in accounts : AuthStatus(t, sellerId)
    \/ \E sellerId \in accounts : Logout(t, sellerId)

Environment == Tick \/ RedisFails \/ RedisRecovers

\* One client that waits for each reply before it sends its next request.
Next ==
    \/ \E t \in SerialTasks : Quiet /\ Request(t, OneSeller)
    \/ \E t \in SerialTasks : Step(t, Responses)
    \/ Environment

Spec == Init /\ [][Next]_vars

\* Requests that overlap.
NextConc ==
    \/ \E t \in Tasks : Request(t, OneSeller)
    \/ \E t \in Tasks : Step(t, PlainResponses)
    \/ Environment

SpecConc == Init /\ [][NextConc]_vars

\* One client that works with two accounts.
NextPair ==
    \/ \E t \in SerialTasks : Quiet /\ Request(t, Sellers)
    \/ \E t \in SerialTasks : Step(t, PlainResponses)
    \/ Environment

SpecPair == Init /\ [][NextPair]_vars

\* Redis, when configured, is unreachable from the first token operation on.
InitDown ==
    /\ redis \in BOOLEAN
    /\ redisUp = FALSE
    /\ redisStore = [s \in Sellers |-> Null]
    /\ sellerTokens = [s \in Sellers |-> Null]
    /\ now = MsPerSec
    /\ task = [t \in Tasks |-> IdleTask]
    /\ everAuth = {}
    /\ call = NoCall

NextDown ==
    \/ \E t \in SerialTasks : Quiet /\ Request(t, OneSeller)
    \/ \E t \in SerialTasks : Step(t, Responses)
    \/ Tick

SpecDown == InitDown /\ [][NextDown]_vars

\* Two clients whose requests overlap.  Each client works with the account
\* home[t], authenticates with its credentials, calls a gated tool and logs
\* out; the remote answers with complete payloads that last one second.
Apart == [t \in Tasks |-> IF t = "t1" THEN "S1" ELSE "S2"]
Same == [t \in Tasks |-> "S1"]

TimedResponses == {Data(AccessTok(n), RefreshTok(n), Num(1)) : n \in TokenIds}

OneResponse == {Data(AccessTok(1), RefreshTok(1), Num(1))}

NextClients(home, responses) ==
    \/ \E t \in Tasks : Dispatch(t, "myntra_authenticate", home[t], "k", "k")
    \/ \E t \in Tasks : Dispatch(t, "myntra_list_products", home[t], Absent, Absent)
    \/ \E t \in Tasks : Logout(t, home[t])
    \/ \E t \in Tasks : CheckRead(t)
    \/ \E t \in Tasks, data \in responses : RefreshOk(t, data)
    \/ \E t \in Tasks : RefreshFail(t)
    \/ \E t \in Tasks, data \in responses : TokenOk(t, data)
    \/ \E t \in Tasks : TokenFail(t)
    \/ \E t \in Tasks : Store(t)
    \/ \E t \in Tasks : Revoke(t)
    \/ \E t \in Tasks : ApiRead(t)
    \/ \E t \in Tasks : ApiOk(t)
    \/ \E t \in Tasks : ApiFail(t)
    \/ Environment

\* The two clients work with different accounts.
SpecApart == Init /\ [][NextClients(Apart, OneResponse)]_vars

\* The two clients work with the same account.
SpecSame == Init /\ [][NextClients(Same, TimedResponses)]_vars

\* Two answers, of which one carries no refresh token.
MixedResponses ==
    {Data(AccessTok(1), RefreshTok(1), Num(1)),
     Data(AccessTok(2), Undefined, Num(1))}

\* The two clients work with the same account and the remote's answers vary.
SpecMixed == Init /\ [][NextClients(Same, MixedResponses)]_vars

\* The two clients of SpecSame, with every await of an invocation in flight
\* settling in the end: the remote and Redis answer or fail every call, and
\* the event loop then runs the continuation.
Settles == \A t \in Tasks : WF_vars(Step(t, OneResponse))

SpecLive == Init /\ [][NextClients(Same, OneResponse)]_vars /\ Settles

\* The serial client of Spec with complete payloads, and a readiness probe
\* that is sent at any time.
NextProbe ==
    \/ Ready
    \/ \E t \in SerialTasks : Quiet /\ Request(t, OneSeller)
    \/ \E t \in SerialTasks : Step(t, OneResponse)
    \/ Environment

SpecProbe == Init /\ [][NextProbe]_vars

\* One client that authenticates one account with varying credentials and
\* logs out.
Keys == {"k", "j"}

NextCreds ==
    \/ \E t \in SerialTasks, apiKey \in Keys \cup {Absent}, apiSecret \in Keys \cup {Absent} :
          Quiet /\ Dispatch(t, "myntra_authenticate", "S1", apiKey, apiSecret)
    \/ \E t \in SerialTasks : Quiet /\ Logout(t, "S1")
    \/ \E t \in SerialTasks : CheckRead(t)
    \/ \E t \in SerialTasks, data \in Responses : RefreshOk(t, data)
    \/ \E t \in SerialTasks : RefreshFail(t)
    \/ \E t \in SerialTasks, data \in Responses : TokenOk(t, data)
    \/ \E t \in SerialTasks : TokenFail(t)
    \/ \E t \in SerialTasks : Store(t)
    \/ \E t \in SerialTasks : Revoke(t)
    \/ Environment

SpecCreds == Init /\ [][NextCreds]_vars

\* A server without REDIS_URL that is called through its tools only, by one
\* client.
InitTools ==
    /\ redis = FALSE
    /\ redisUp = FALSE
    /\ redisStore = [s \in Sellers |-> Null]
    /\ sellerTokens = [s \in Sellers |-> Null]
    /\ now = MsPerSec
    /\ task = [t \in Tasks |-> IdleTask]
    /\ everAuth = {}
    /\ call = NoCall

NextTools ==
    \/ \E t \in SerialTasks, name \in ToolNames, sellerId \in OneSeller \cup {Absent},
          apiKey \in Credentials, apiSecret \in Credentials :
            Quiet /\ Dispatch(t, name, sellerId, apiKey, apiSecret)
    \/ \E t \in SerialTasks : CheckRead(t)
    \/ \E t \in SerialTasks, data \in Responses : RefreshOk(t, data)
    \/ \E t \in SerialTasks : RefreshFail(t)
    \/ \E t \in SerialTasks, data \in Responses : TokenOk(t, data)
    \/ \E t \in SerialTasks : TokenFail(t)
    \/ \E t \in SerialTasks : Store(t)
    \/ \E t \in SerialTasks : Revoke(t)
    \/ \E t \in SerialTasks : ApiRead(t)
    \/ \E t \in SerialTasks : ApiOk(t)
    \/ \E t \in SerialTasks : ApiFail(t)
    \/ Tick

SpecTools == InitTools /\ [][NextTools]_vars

\* The tool handlers alone, each called with every argument record.
NextHandlers == \E tool \in HandlerTools : \E args \in ArgsOf(tool) : HandlerCall(tool, args)

SpecHandlers == Init /\ [][NextHandlers]_vars

\* ------------------------------------------------------------ properties
\* The tools behind the authentication gate.
GatedTools == ToolNames \ {"myntra_authenticate", "myntra_status"}

\* A session with a non-empty access token.
HasAccess(tokens) ==
    /\ tokens # Null
    /\ tokens.accessToken[1] = "string"
    /\ tokens.accessToken # EmptyStr

\* now < expiresOn, for the instant t.
ValidAt(tokens, t) ==
    /\ tokens.expiresOn[1] = "number"
    /\ t < tokens.expiresOn[2]

HasRefreshToken(tokens) == tokens.refreshToken[1] = "string"

\* Task t takes a step.
Moves(t) == task'[t] # task[t]

\* What a getTokens would read in the state an action leads to.
StoredAfter(sellerId) ==
    IF redis /\ redisUp
    THEN IF redisStore'[sellerId] = Null THEN Null
         ELSE JsonParse(redisStore'[sellerId])
    ELSE sellerTokens'[sellerId]

\* C1: for an account for which no authenticate (tool or /auth/login) has
\* ever succeeded, checkAuthentication never returns true, no handler runs and
\* no resource request is issued, and a dispatch of a gated tool ends with the
\* 'Not authenticated' error result.
C1_NeverAuthenticated ==
    \A t \in Tasks :
        LET tk == task[t]
        IN  (tk.seller \in Sellers /\ tk.seller \notin everAuth) =>
                /\ tk.authed # "true"
                /\ ~tk.handler
                /\ tk.apiCalls = 0
                /\ tk.pc \notin {"api_get", "api_wait", "status_get"}
                /\ (tk.pc = "done" /\ tk.name \in GatedTools) =>
                        /\ tk.authed = "false"
                        /\ tk.result.kind = "not_authenticated"
                        /\ tk.result.isError
                        /\ ~tk.result.thrown

C1_Witness ==
    \E t \in Tasks :
        /\ task[t].pc = "done"
        /\ task[t].name = "myntra_list_products"
        /\ task[t].seller \in Sellers \ everAuth
        /\ task[t].result.kind = "not_authenticated"

\* C2: in a dispatch of a gated tool the handler, and so any resource
\* request, is started only after checkAuthentication returned true in that
\* dispatch; when it returned false the handler is not invoked and the
\* dispatch ends with the authentication error result.
C2_GateBeforeHandler ==
    \A t \in Tasks :
        LET tk == task[t]
        IN  tk.name \in GatedTools =>
                /\ (tk.handler \/ tk.apiCalls > 0 \/ tk.pc \in {"api_get", "api_wait"})
                        => tk.authed = "true"
                /\ tk.authed = "false" =>
                        /\ ~tk.handler
                        /\ tk.apiCalls = 0
                        /\ tk.pc = "done"
                        /\ tk.result.kind = "not_authenticated"
                        /\ tk.result.isError

C2_Witness ==
    \E t \in Tasks :
        /\ task[t].name \in GatedTools
        /\ task[t].pc = "api_wait"
        /\ task[t].handler
        /\ task[t].authed = "true"
        /\ task[t].refreshCalls > 0

\* C5: checkAuthentication returns true exactly when a session is stored for
\* the account, its access token is non-empty, and either now < expiresOn or
\* a refresh attempt made within this call succeeds.
C5_Step(t) ==
    LET tk == task[t]
        after == task'[t]
        tokens == GetTokens(tk.seller)
        fresh == HasAccess(tokens) /\ ValidAt(tokens, now)
    IN  /\ (tk.pc = "check" /\ Moves(t)) =>
                /\ after.authed = "true" <=> fresh
                /\ after.authed = "none" <=> after.pc = "refresh"
                /\ after.pc = "refresh" => HasAccess(tokens) /\ ~fresh
        /\ (tk.pc = "store" /\ Moves(t)) =>
                /\ after.authed = "true"
                /\ HasAccess(tk.tokens)
                /\ tk.refreshed # NoData
        /\ (tk.pc = "revoke" /\ tk.name # "POST /auth/logout" /\ Moves(t)) =>
                /\ after.authed = "false"
                /\ tk.refreshed = NoData

C5_CheckAuthenticationIff == [][\A t \in Tasks : C5_Step(t)]_vars

C5_Witness ==
    \E t \in Tasks :
        /\ task[t].pc = "done"
        /\ task[t].authed = "true"
        /\ task[t].refreshed # NoData

\* C8: a successful refresh stores a session whose accessToken and expiresOn
\* are those of the refresh answer and whose refreshToken is the answer's
\* refresh_token when present and the prior session's otherwise; the refresh
\* token is never lost.
C8_Step(t) ==
    LET tk == task[t]
        after == task'[t]
    IN  /\ (tk.pc = "refresh" /\ after.pc = "store") =>
            LET data == after.refreshed
                built == after.pending
            IN  /\ data \in Responses
                /\ built.accessToken = data.access_token
                /\ data.expires_in[1] = "number" =>
                        built.expiresOn = Num(now + data.expires_in[2] * MsPerSec)
                /\ built.refreshToken = IF data.refresh_token # Undefined
                                        THEN data.refresh_token
                                        ELSE tk.tokens.refreshToken
                /\ HasRefreshToken(built)
        /\ (tk.pc = "store" /\ Moves(t)) =>
            LET stored == StoredAfter(tk.seller)
            IN  /\ stored # Null
                /\ stored.accessToken = tk.pending.accessToken
                /\ stored.refreshToken = tk.pending.refreshToken
                /\ tk.pending.expiresOn[1] = "number" =>
                        stored.expiresOn = tk.pending.expiresOn

C8_RefreshReplacesSession == [][\A t \in Tasks : C8_Step(t)]_vars

C8_Witness ==
    \E t \in Tasks :
        LET tokens == GetTokens(task[t].seller)
        IN  /\ task[t].pc = "done"
            /\ task[t].authed = "true"
            /\ task[t].refreshed # NoData
            /\ task[t].refreshed.refresh_token = Undefined
            /\ HasAccess(tokens)
            /\ tokens.accessToken = task[t].refreshed.access_token
            /\ HasRefreshToken(tokens)

\* C9: when the stored session is stale and holds no refresh token,
\* checkAuthentication returns false and issues no remote call.
C9_Step(t) ==
    LET tk == task[t]
        after == task'[t]
        tokens == GetTokens(tk.seller)
    IN  (/\ tk.pc = "check"
         /\ Moves(t)
         /\ HasAccess(tokens)
         /\ ~ValidAt(tokens, now)
         /\ ~HasRefreshToken(tokens)) =>
            /\ after.authed = "false"
            /\ after.refreshCalls = 0
            /\ after.pc # "refresh"

C9_StaleWithoutRefreshToken == [][\A t \in Tasks : C9_Step(t)]_vars

C9_Witness ==
    \E t \in Tasks :
        LET tokens == GetTokens(task[t].seller)
        IN  /\ task[t].pc = "done"
            /\ task[t].name = "myntra_list_products"
            /\ task[t].authed = "false"
            /\ task[t].refreshCalls = 0
            /\ HasAccess(tokens)
            /\ ~ValidAt(tokens, now)
            /\ ~HasRefreshToken(tokens)

\* A session that checkAuthentication accepts at the instant t without a
\* refresh.
SessionValid(tokens, t) == HasAccess(tokens) /\ ValidAt(tokens, t)

NoEntries == [mem |-> Null, red |-> Null]

\* C3: an authenticate that directly follows a successful authenticate for
\* the same account, with the session the first one created still valid,
\* issues no token request of its own (one in total), leaves the stored
\* session unchanged and reports the same seller id.
C3_Step(t) ==
    LET tk == task[t]
        after == task'[t]
    IN  (/\ tk.pc = "check"
         /\ tk.name = "myntra_authenticate"
         /\ tk.prior.tag = "authenticated"
         /\ tk.prior.seller = tk.seller
         /\ SessionValid(tk.prior.created, now)
         /\ Moves(t)) =>
            /\ after.pc = "done"
            /\ after.result.kind = "already_authenticated"
            /\ after.result.sellerId = SellerStr(tk.prior.seller)
            /\ after.tokenCalls = 0
            /\ EntriesAfter(tk.seller) = Entries(tk.seller)

C3_AuthenticateTwice == [][\A t \in Tasks : C3_Step(t)]_vars

\* C4: an authenticate that fails because the remote rejects the credentials
\* returns an error result and leaves the account's entries of the token
\* store as they were before the call, whatever the account's prior state.
C4_FailedAuthenticateKeepsStore ==
    \A t \in Tasks :
        (/\ task[t].pc = "done"
         /\ task[t].name = "myntra_authenticate"
         /\ task[t].result.kind = "auth_failed") =>
            /\ task[t].result.isError
            /\ ~task[t].changed

\* C6: after a refresh that the remote accepted, checkAuthentication returns
\* true and the resource request that follows carries the access token of the
\* refresh answer.
C6_RefreshedTokenAttached ==
    \A t \in Tasks :
        task[t].refreshed # NoData =>
            /\ task[t].authed \in {"none", "true"}
            /\ task[t].pc = "api_wait" =>
                    task[t].bearer = task[t].refreshed.access_token

\* C7: when the refresh fails, the account's session is deleted from the
\* token store, also when the durable delete fails, and the next
\* checkAuthentication returns false without a refresh attempt.
C7_Step(t) ==
    LET tk == task[t]
        after == task'[t]
    IN  /\ (tk.pc = "revoke" /\ tk.name # "POST /auth/logout" /\ Moves(t)) =>
                /\ EntriesAfter(tk.seller) = NoEntries
                /\ after.authed = "false"
        /\ (/\ tk.pc = "check"
            /\ tk.prior.tag = "refresh_failed"
            /\ tk.prior.seller = tk.seller
            /\ Moves(t)) =>
                /\ after.authed = "false"
                /\ after.refreshCalls = 0

C7_FailedRefreshDeletes == [][\A t \in Tasks : C7_Step(t)]_vars

\* C10: revokeTokens completes without throwing, and called on an account
\* without a session, or for the second time in a row, it leaves the store
\* with no session for the account.
C10_Step(t) ==
    LET tk == task[t]
        after == task'[t]
    IN  (tk.pc = "revoke" /\ Moves(t)) =>
            /\ after.pc = "done" => ~after.result.thrown
            /\ (\/ Entries(tk.seller) = NoEntries
                \/ (tk.prior.tag = "revoked" /\ tk.prior.seller = tk.seller)) =>
                    EntriesAfter(tk.seller) = NoEntries

C10_RevokeIdempotent == [][\A t \in Tasks : C10_Step(t)]_vars

\* C11: makeApiRequest throws 'Not authenticated' and sends no request when
\* getTokens finds no session or no access token; otherwise it sends the
\* stored access token, also an expired one.  It starts no refresh and does
\* not write to the token store.
C11_Step(t) ==
    LET tk == task[t]
        after == task'[t]
        tokens == GetTokens(tk.seller)
    IN  (tk.pc = "api_get" /\ Moves(t)) =>
            /\ EntriesAfter(tk.seller) = Entries(tk.seller)
            /\ after.refreshCalls = tk.refreshCalls
            /\ after.pc # "refresh"
            /\ IF HasAccess(tokens)
               THEN /\ after.pc = "api_wait"
                    /\ after.apiCalls = tk.apiCalls + 1
                    /\ after.bearer = tokens.accessToken
               ELSE /\ after.pc = "done"
                    /\ after.apiCalls = tk.apiCalls
                    /\ after.result.message = "Not authenticated"

C11_MakeApiRequestNoRefresh == [][\A t \in Tasks : C11_Step(t)]_vars

\* An expired access token was sent, and no refresh was tried.
C11_Witness ==
    \E t \in Tasks :
        LET tokens == GetTokens(task[t].seller)
        IN  /\ task[t].pc = "api_wait"
            /\ task[t].refreshCalls = 0
            /\ HasAccess(tokens)
            /\ ~ValidAt(tokens, now)
            /\ task[t].bearer = tokens.accessToken

\* What getTokens returns for a session written by storeTokens, whichever
\* back end kept it.
Normal(tokens) ==
    IF tokens = Null THEN Null ELSE JsonParse(JsonStringify(tokens))

\* The state of an account's session at the instant t.
SessionState(tokens, t) ==
    IF ~HasAccess(tokens) THEN "Unauthenticated"
    ELSE IF ValidAt(tokens, t) THEN "Authenticated"
    ELSE "Stale"

\* Task t completes the awaited operation `pc` for the account.
Completes(t, pc, sellerId) ==
    task[t].pc = pc /\ task[t].seller = sellerId /\ Moves(t)

\* C12: an account's session changes state only from Unauthenticated to
\* Authenticated by a successful authenticate, from Authenticated to Stale by
\* the passing of time, from Stale to Authenticated by a successful refresh,
\* from Stale to Unauthenticated by a failed refresh and from any state to
\* Unauthenticated by a revoke; no other step creates, changes or deletes the
\* session that the token store returns for the account.
C12_Step(sellerId) ==
    LET before == GetTokens(sellerId)
        after == GetTokens(sellerId)'
        sb == SessionState(before, now)
        sa == SessionState(after, now')
    IN  CASE \E t \in Tasks : Completes(t, "store_issued", sellerId) ->
                \E t \in Tasks : /\ Completes(t, "store_issued", sellerId)
                                 /\ Normal(after) = Normal(task[t].pending)
          [] \E t \in Tasks : Completes(t, "store", sellerId) ->
                \E t \in Tasks : /\ Completes(t, "store", sellerId)
                                 /\ sb = "Stale"
                                 /\ Normal(after) = Normal(task[t].pending)
          [] \E t \in Tasks : Completes(t, "revoke", sellerId) ->
                \E t \in Tasks : /\ Completes(t, "revoke", sellerId)
                                 /\ sa = "Unauthenticated"
                                 /\ task[t].name # "POST /auth/logout" => sb = "Stale"
          [] OTHER ->
                /\ after = before
                /\ \/ sa = sb
                   \/ now' > now /\ sb = "Authenticated" /\ sa = "Stale"

C12_SessionTransitions == [][\A sellerId \in Sellers : C12_Step(sellerId)]_vars

\* C13: every dispatch of a tool ends by returning a result, never by
\* throwing; when the tool's handler threw, the result returned is an error
\* result (isError) that carries the exception's message.
C13_DispatchNeverThrows ==
    \A t \in Tasks :
        (task[t].pc = "done" /\ task[t].name \in ToolNames) =>
            /\ ~task[t].result.thrown
            /\ (task[t].handler /\ task[t].result.message # "") =>
                    task[t].result.isError

\* C14: a dispatch of a tool other than myntra_authenticate and myntra_status
\* without seller_id returns at once the error result with the validation
\* message: no read of the token store, no authentication check, no remote
\* call, and every stored session is left as it was.
C14_Step(t) ==
    LET after == task'[t]
    IN  (Moves(t) /\ after.name \in GatedTools /\ after.seller = Absent) =>
            /\ Idle(t)
            /\ after.pc = "done"
            /\ after.result.kind = "seller_id_required"
            /\ after.result.isError
            /\ ~after.result.thrown
            /\ after.authed = "none"
            /\ after.tokens = Null
            /\ ~after.handler
            /\ after.refreshCalls = 0 /\ after.tokenCalls = 0 /\ after.apiCalls = 0
            /\ UNCHANGED <<redisStore, sellerTokens>>

C14_SellerIdRequired == [][\A t \in Tasks : C14_Step(t)]_vars

\* The validation error was returned while a session is stored.
C14_Witness ==
    \E t \in Tasks :
        /\ task[t].pc = "done"
        /\ task[t].name = "myntra_list_products"
        /\ task[t].seller = Absent
        /\ task[t].result.kind = "seller_id_required"
        /\ \E s \in Sellers : GetTokens(s) # Null

\* C15: myntra_status with a seller_id never ends in an error result: when
\* checkAuthentication returned false it returns 'Not connected', and when
\* it returned true it returns the account details or, the /account/info
\* fetch having failed, 'Connected but unable to fetch details'; the failed
\* fetch leaves the stored session as it was.
C15_Step(t) ==
    LET tk == task[t]
        after == task'[t]
    IN  /\ (after.pc = "done" /\ after.name = "myntra_status"
                /\ after.seller # Absent /\ Moves(t)) =>
                /\ ~after.result.isError
                /\ ~after.result.thrown
                /\ after.authed = "false" =>
                        after.result.kind = "status_not_connected"
                /\ after.authed = "true" =>
                        after.result.kind \in {"status_connected", "status_partial"}
                /\ after.authed # "none"
        /\ (tk.name = "myntra_status" /\ tk.pc \in {"api_get", "api_wait"}
                /\ Moves(t)) =>
                /\ UNCHANGED <<redisStore, sellerTokens>>
                /\ (tk.pc = "api_get" /\ after.pc = "done") =>
                        after.result.kind = "status_partial"

C15_StatusNeverErrors == [][\A t \in Tasks : C15_Step(t)]_vars

\* The fetch was sent and failed, and the session is still stored.
C15_Witness ==
    \E t \in Tasks :
        /\ task[t].pc = "done"
        /\ task[t].name = "myntra_status"
        /\ task[t].authed = "true"
        /\ task[t].apiCalls = 1
        /\ task[t].result.kind = "status_partial"
        /\ ~task[t].result.isError
        /\ HasAccess(GetTokens(task[t].seller))

\* The in-process map and Redis do not hold different sessions for the account.
StoresAgree(sellerId) ==
    (sellerTokens[sellerId] # Null /\ redisStore[sellerId] # Null) =>
        JsonParse(redisStore[sellerId]) = Normal(sellerTokens[sellerId])

\* C16: with Redis configured, whatever Redis operations failed and recovered,
\* the in-process map and Redis never hold different sessions for an account,
\* the getTokens that follows a completed storeTokens returns the session
\* that was stored, and the getTokens that follows a completed revokeTokens
\* returns none.
C16_Step(t) ==
    LET tk == task[t]
        got == GetTokens(tk.seller)
    IN  (redis /\ tk.pc = "check" /\ tk.prior.seller = tk.seller /\ Moves(t)) =>
            /\ tk.prior.tag = "authenticated" =>
                    Normal(got) = Normal(tk.prior.created)
            /\ tk.prior.tag = "revoked" => got = Null

C16_StoreConsistent ==
    [][/\ \A sellerId \in Sellers : redis => StoresAgree(sellerId)'
       /\ \A t \in Tasks : C16_Step(t)]_vars

\* C17: with Redis configured and every Redis operation failing, each token
\* store operation reads and writes exactly what it does on a server without
\* Redis, so that every sequence of calls runs as it does there.
C17_Step(t) ==
    LET tk == task[t]
    IN  /\ \A sellerId \in Sellers :
                /\ GetTokens(sellerId) = MemGetTokens(sellerId)
                /\ redisStore[sellerId] = Null
        /\ (tk.pc \in {"store", "store_issued"} /\ Moves(t)) =>
                MemStoreTokens(tk.seller, tk.pending)
        /\ (tk.pc = "revoke" /\ Moves(t)) => MemRevokeTokens(tk.seller)

C17_DownIsInProcess ==
    [][(redis /\ ~redisUp) => \A t \in Tasks : C17_Step(t)]_vars

\* With Redis down a session was stored, read back and revoked.
C17_Witness ==
    \E t \in Tasks :
        /\ redis /\ ~redisUp
        /\ task[t].pc = "done"
        /\ task[t].result.kind = "http_logout_200"
        /\ task[t].changed
        /\ task[t].seller \in everAuth
        /\ GetTokens(task[t].seller) = Null

\* C18: every session held by the token store, in the in-process map or in
\* Redis, has the sellerId of the account it is stored under.
C18_SellerIdIsKey ==
    \A sellerId \in Sellers :
        /\ sellerTokens[sellerId] # Null =>
                sellerTokens[sellerId].sellerId = SellerStr(sellerId)
        /\ redisStore[sellerId] # Null =>
                JsonParse(redisStore[sellerId]).sellerId = SellerStr(sellerId)

\* Both accounts hold a session, one of them written by a refresh.
C18_Witness ==
    /\ \A sellerId \in Sellers : GetTokens(sellerId) # Null
    /\ \E t \in Tasks : task[t].pc = "done" /\ task[t].refreshed # NoData
                        /\ task[t].authed = "true"

\* C19: with two clients working on different accounts in any interleaving,
\* a step of a call for one account leaves the other account's stored
\* session and the other client's call as they were, and what
\* checkAuthentication and makeApiRequest answer for an account is decided by
\* that account's own session.
C19_Step(t) ==
    Moves(t) =>
        /\ \A u \in Tasks \ {t} :
                /\ task'[u] = task[u]
                /\ EntriesAfter(Apart[u]) = Entries(Apart[u])
        /\ task'[t].seller = Apart[t]
        /\ C5_Step(t)
        /\ C11_Step(t)

C19_AccountsApart == [][\A t \in Tasks : C19_Step(t)]_vars

\* A failed refresh is about to delete one account's session while a call
\* for the other account, which holds a session, is under way.
C19_Witness ==
    /\ task["t1"].pc = "revoke"
    /\ task["t1"].name = "myntra_list_products"
    /\ task["t2"].pc = "api_wait"
    /\ HasAccess(GetTokens("S1"))
    /\ HasAccess(GetTokens("S2"))

\* The account's entries hold no session other than tokens.
OnlySession(entries, tokens) ==
    /\ entries.mem = Null \/ Normal(entries.mem) = Normal(tokens)
    /\ entries.red = Null \/ JsonParse(entries.red) = Normal(tokens)

\* C20: when two overlapping checkAuthentication calls for one stale account
\* both refresh and the remote accepts both, each call returns true, and once
\* a call's storeTokens completes the session stored for the account is
\* exactly the one that call wrote: the later write wins.
C20_Step(t) ==
    LET tk == task[t]
        after == task'[t]
    IN  (/\ tk.pc = "store"
         /\ Moves(t)
         /\ \E u \in Tasks \ {t} : /\ task[u].seller = tk.seller
                                   /\ task[u].refreshed # NoData) =>
            /\ after.authed = "true"
            /\ \A u \in Tasks : (task[u].seller = tk.seller
                                    /\ task[u].refreshed # NoData) =>
                                        task'[u].authed \in {"none", "true"}
            /\ Normal(GetTokens(tk.seller)') = Normal(tk.pending)
            /\ OnlySession(EntriesAfter(tk.seller), tk.pending)

C20_LastWriteWins == [][\A t \in Tasks : C20_Step(t)]_vars

\* C21: a resource request that fails leaves the account's entries of the
\* token store as they were, so that a checkAuthentication made after it
\* decides as one made before it.
C21_Step(t) ==
    LET tk == task[t]
        after == task'[t]
    IN  (/\ tk.pc = "api_wait"
         /\ Moves(t)
         /\ after.result.message = "remote error") =>
            /\ EntriesAfter(tk.seller) = Entries(tk.seller)
            /\ GetTokens(tk.seller)' = GetTokens(tk.seller)
            /\ CheckEval(GetTokens(tk.seller)', now') =
                    CheckEval(GetTokens(tk.seller), now)

C21_FailedCallKeepsSession == [][\A t \in Tasks : C21_Step(t)]_vars

\* A gated tool's request failed and the session is still valid.
C21_Witness ==
    \E t \in Tasks :
        /\ task[t].pc = "done"
        /\ task[t].name = "myntra_list_products"
        /\ task[t].apiCalls = 1
        /\ task[t].result.message = "remote error"
        /\ CheckEval(GetTokens(task[t].seller), now) = "true"

\* C22: a resource request carries the access token of the session stored
\* for its account when the request is built, a session of that account; and
\* the tool call that follows an authenticate which stored token T for the
\* account, and that passes the gate on the stored session, works with T.
C22_Step(t) ==
    LET tk == task[t]
        after == task'[t]
        tokens == GetTokens(tk.seller)
    IN  /\ (tk.pc = "api_get" /\ after.pc = "api_wait") =>
                /\ HasAccess(tokens)
                /\ after.bearer = tokens.accessToken
                /\ tokens.sellerId = SellerStr(tk.seller)
        /\ (/\ tk.pc = "check"
            /\ tk.name \in GatedTools
            /\ tk.prior.tag = "authenticated"
            /\ tk.prior.seller = tk.seller
            /\ after.pc = "api_get") =>
                /\ tokens.accessToken = tk.prior.created.accessToken
                /\ after.tokens.accessToken = tk.prior.created.accessToken

C22_BearerIsStoredToken == [][\A t \in Tasks : C22_Step(t)]_vars

\* C23: the makeApiRequest of a handler that was started after the gate
\* passed finds a session with an access token and never throws
\* 'Not authenticated', whatever other calls for the account overlap with it
\* and whatever Redis operations fail.
C23_HandlerFindsSession ==
    \A t \in Tasks :
        (task[t].name \in GatedTools /\ task[t].handler) =>
            task[t].result.message # "Not authenticated"

\* C24: a dispatch of a gated tool whose checkAuthentication met a failed
\* refresh deletes the account's session and then returns the
\* 'Not authenticated' error result: the handler is not run and the refresh
\* error is not reported.
C24_Step(t) ==
    LET tk == task[t]
        after == task'[t]
    IN  (tk.pc = "revoke" /\ tk.name \in GatedTools /\ Moves(t)) =>
            /\ tk.refreshCalls = 1
            /\ after.pc = "done"
            /\ after.result.kind = "not_authenticated"
            /\ after.result.isError
            /\ ~after.result.thrown
            /\ after.result.message = ""
            /\ ~after.handler
            /\ after.apiCalls = 0
            /\ GetTokens(tk.seller)' = Null
            /\ EntriesAfter(tk.seller) = NoEntries

C24_RefreshFailureSurfaces == [][\A t \in Tasks : C24_Step(t)]_vars

\* C25: POST /auth/login makes the remote calls and leaves the stored session
\* that myntra_authenticate makes and leaves for the same account and
\* credentials: no token request while the stored session is valid, a refresh
\* before the token request when it is stale; POST /auth/logout leaves the
\* store as revokeTokens does.
C25_Step(t) ==
    LET tk == task[t]
        after == task'[t]
        decided == CheckEval(GetTokens(after.seller), now)
    IN  /\ (/\ Idle(t)
            /\ Moves(t)
            /\ after.name = "POST /auth/login"
            /\ after.pc # "done") =>
                /\ decided = "true" => after.tokenCalls = 0
                /\ decided = "refresh" => after.pc = "refresh" /\ after.tokenCalls = 0
                /\ decided = "false" => after.pc = "token" /\ after.tokenCalls = 1
        /\ (tk.pc = "store_issued" /\ tk.name = "POST /auth/login" /\ Moves(t)) =>
                StoreTokens(tk.seller, tk.pending)
        /\ (tk.pc = "revoke" /\ tk.name = "POST /auth/logout" /\ Moves(t)) =>
                RevokeTokens(tk.seller)

C25_HttpAliases == [][\A t \in Tasks : C25_Step(t)]_vars

\* ------------------------------------------------------------ tool handlers
\* The arguments of a call with every absent argument that has a catalog
\* default set to that default.
WithCatalogDefaults(tool, args) ==
    [a \in ArgNames |->
       IF args[a] = Undefined /\ a \in DOMAIN CatalogDefaults(tool)
       THEN CatalogDefaults(tool)[a] ELSE args[a]]

Called(tool) == call.tool = tool

BodyFields(made) == {p[1] : p \in made.request.body}

\* C26: every handler sends, for a call with optional arguments absent, the
\* request it sends for the same call with the catalog defaults passed
\* explicitly.
C26_CatalogDefaultsApplied ==
    call.tool # "none" =>
        call.made.request
          = RunHandler(call.tool, WithCatalogDefaults(call.tool, call.args)).request

\* The handlers whose destructuring defaults repeat the catalog's do so.
C26_ListDefaultsApplied ==
    call.tool \in {"myntra_list_products", "myntra_list_orders", "myntra_get_returns"} =>
        call.made.request
          = RunHandler(call.tool, WithCatalogDefaults(call.tool, call.args)).request

C28_DispatchCompletes ==
    /\ [](\A t \in Tasks : task[t].refreshCalls <= 1 /\ task[t].apiCalls <= 1)
    /\ \A t \in Tasks : (~Idle(t)) ~> (task[t].pc = "done")

C28_Witness ==
    \E t \in Tasks : \E u \in Tasks \ {t} :
        /\ task[t].pc = "done"
        /\ task[t].name = "myntra_list_products"
        /\ task[t].refreshCalls = 1
        /\ task[t].apiCalls = 1
        /\ ~Idle(u)

\* ------------------------------------------------------------------- expiry
\* C29: the session a successful authenticate hands to storeTokens has
\* expiresOn = the instant it is built + expires_in * 1000, and the
\* checkAuthentication of the client's next call for the account returns true
\* without a refresh exactly at the instants before that expiresOn.
C29_Step(t) ==
    LET tk == task[t]
        after == task'[t]
        created == tk.prior.created
    IN  /\ (tk.pc = "token" /\ after.pc = "store_issued") =>
            \E data \in Responses :
                /\ after.pending.accessToken = data.access_token
                /\ data.expires_in[1] = "number" =>
                     after.pending.expiresOn = Num(now + data.expires_in[2] * MsPerSec)
        /\ (/\ tk.pc = "check" /\ Moves(t)
            /\ tk.prior.tag = "authenticated"
            /\ tk.prior.seller = tk.seller
            /\ HasAccess(created)
            /\ created.expiresOn[1] = "number") =>
                (after.authed = "true" /\ after.refreshCalls = 0)
                    <=> now < created.expiresOn[2]

C29_ExpiresOnInMs == [][\A t \in Tasks : C29_Step(t)]_vars

\* ---------------------------------------------------------------- readiness
\* C30: the probe answers 200 'ready' when no Redis client is configured or
\* the ping is answered, and 503 'not ready' when a client is configured and
\* the ping fails.
C30_Step ==
    (call' # call) =>
        /\ call'.tool = "GET /ready"
        /\ (~redis \/ redisUp) => call'.status = 200 /\ call'.body = "ready"
        /\ (redis /\ ~redisUp) => call'.status = 503 /\ call'.body = "not ready"

C30_ReadyReflectsPing == [][C30_Step]_vars

C30_Witness ==
    /\ redis /\ ~redisUp
    /\ call.tool = "GET /ready"
    /\ call.status = 503
    /\ \E t \in Tasks : task[t].pc = "done"

\* -------------------------------------------------------------- overlapping
\* C31: after a revokeTokens for the account has completed and left it
\* without a session, the storeTokens of a checkAuthentication whose refresh
\* was already in flight does not create a session again.
C31_Step(t) ==
    LET tk == task[t]
    IN  (/\ tk.pc = "store" /\ Moves(t)
         /\ Entries(tk.seller) = NoEntries
         /\ \E u \in Tasks \ {t} :
               /\ task[u].pc = "done"
               /\ task[u].seller = tk.seller
               /\ task[u].result.kind = "http_logout_200") =>
            EntriesAfter(tk.seller) = NoEntries

C31_RevokedStaysRevoked == [][\A t \in Tasks : C31_Step(t)]_vars

\* C32: the revokeTokens that follows a failed refresh leaves alone a session
\* that was stored for the account, by an overlapping call, after the
\* checkAuthentication read the session whose refresh token was rejected.
C32_Step(t) ==
    LET tk == task[t]
        stored == GetTokens(tk.seller)
    IN  (/\ tk.pc = "revoke" /\ Moves(t)
         /\ tk.name # "POST /auth/logout"
         /\ tk.tokens # Null
         /\ HasAccess(stored)
         /\ stored.accessToken # tk.tokens.accessToken) =>
            EntriesAfter(tk.seller) = Entries(tk.seller)

C32_FailedRefreshKeepsNewer == [][\A t \in Tasks : C32_Step(t)]_vars

\* The session built from one answer at one instant; the refresh token is
\* the answer's or, for a refresh, that of the tokens the call read.
BuiltFrom(tokens, data, sellerId, t) ==
    SellerTokens(data.access_token,
                 IF tokens = Null THEN data.refresh_token
                 ELSE OrElse(data.refresh_token, tokens.refreshToken),
                 IF data.expires_in[1] = "number"
                 THEN Num(t + data.expires_in[2] * MsPerSec) ELSE NaN,
                 SellerStr(sellerId))

\* Every entry written in the step is the whole session of one storeTokens.
WrittenWhole ==
    \A s \in Sellers :
        /\ (sellerTokens'[s] # sellerTokens[s] /\ sellerTokens'[s] # Null) =>
              \E t \in Tasks : /\ task[t].pc \in {"store", "store_issued"}
                               /\ task[t].seller = s /\ Moves(t)
                               /\ sellerTokens'[s] = task[t].pending
        /\ (redisStore'[s] # redisStore[s] /\ redisStore'[s] # Null) =>
              \E t \in Tasks : /\ task[t].pc \in {"store", "store_issued"}
                               /\ task[t].seller = s /\ Moves(t)
                               /\ redisStore'[s] = JsonStringify(task[t].pending)

\* C33, as worded: a session is stored whole and was built from one answer
\* to a token or refresh request; its refresh token is that answer's or that
\* of the session it replaces.
C33_StepReplaced(t) ==
    LET tk == task[t]
        after == task'[t]
        replaced == GetTokens(tk.seller)
    IN  /\ (tk.pc = "refresh" /\ after.pc = "store") =>
              after.pending = BuiltFrom(tk.tokens, after.refreshed, tk.seller, now)
        /\ (tk.pc = "token" /\ after.pc = "store_issued") =>
              \E data \in MixedResponses :
                  after.pending = BuiltFrom(Null, data, tk.seller, now)
        /\ (tk.pc = "store" /\ Moves(t)) =>
              \/ tk.pending.refreshToken = tk.refreshed.refresh_token
              \/ /\ replaced # Null
                 /\ tk.pending.refreshToken = replaced.refreshToken

C33_SessionFromReplaced ==
    [][WrittenWhole /\ \A t \in Tasks : C33_StepReplaced(t)]_vars

\* The part of C33 that does not depend on what the store holds when the
\* session is written: the session is stored whole, was built from one answer,
\* and its refresh token is that answer's or that of the session the call read.
C33_StepRead(t) ==
    LET tk == task[t]
        after == task'[t]
    IN  /\ (tk.pc = "refresh" /\ after.pc = "store") =>
              after.pending = BuiltFrom(tk.tokens, after.refreshed, tk.seller, now)
        /\ (tk.pc = "token" /\ after.pc = "store_issued") =>
              \E data \in MixedResponses :
                  after.pending = BuiltFrom(Null, data, tk.seller, now)
        /\ (tk.pc = "store" /\ Moves(t)) =>
              \/ tk.pending.refreshToken = tk.refreshed.refresh_token
              \/ tk.pending.refreshToken = tk.tokens.refreshToken

C33_SessionFromOneAnswer ==
    [][WrittenWhole /\ \A t \in Tasks : C33_StepRead(t)]_vars

\* ------------------------------------------------------- stale, no refresh
\* The account's session has an access token, is not valid at the instant t
\* and has no refresh token.
StaleNoRefresh(tokens, t) ==
    /\ HasAccess(tokens)
    /\ ~(Truthy(tokens.expiresOn) /\ ValidAt(tokens, t))
    /\ ~Truthy(tokens.refreshToken)

\* C34: while the account's session is stale and has no refresh token, a
\* checkAuthentication returns false without a refresh, and the account's
\* entries change only when an authenticate stores the session it was issued
\* or a logout revokes.
C34_Step(t) ==
    LET tk == task[t]
        after == task'[t]
    IN  (/\ Moves(t) /\ tk.seller \in Sellers
         /\ StaleNoRefresh(GetTokens(tk.seller), now)) =>
            /\ tk.pc = "check" =>
                  /\ after.authed = "false"
                  /\ after.refreshCalls = 0
                  /\ after.pc # "revoke"
            /\ EntriesAfter(tk.seller) # Entries(tk.seller) =>
                  \/ tk.pc = "store_issued"
                  \/ tk.pc = "revoke" /\ tk.name = "POST /auth/logout"

C34_StaleStaysUntilOverwritten == [][\A t \in Tasks : C34_Step(t)]_vars

\* -------------------------------------------------------------- credentials
\* C35: an authenticate whose checkAuthentication returned true, at once or
\* after a refresh, answers 'Already authenticated' for its seller_id
\* whatever api_key and api_secret it was called with: no token request is
\* made and the entries of the token store are left as the check left them.
C35_Step(t) ==
    LET tk == task[t]
        after == task'[t]
    IN  (/\ tk.name = "myntra_authenticate" /\ Moves(t)
         /\ tk.pc \in {"check", "store"}
         /\ after.authed = "true") =>
            /\ tk.creds \in Keys \X Keys
            /\ after.pc = "done"
            /\ after.result = [kind |-> "already_authenticated", isError |-> FALSE,
                               thrown |-> FALSE, sellerId |-> SellerStr(tk.seller),
                               message |-> ""]
            /\ after.tokenCalls = 0
            /\ tk.pc = "check" => EntriesAfter(tk.seller) = Entries(tk.seller)
            /\ tk.pc = "store" => StoreTokens(tk.seller, tk.pending)

C35_CredentialsIgnored == [][\A t \in Tasks : C35_Step(t)]_vars

\* An authenticate called with the second pair of credentials is answered
\* 'Already authenticated' after its check refreshed the session.
C35_Witness ==
    \E t \in Tasks :
        /\ task[t].pc = "done"
        /\ task[t].result.kind = "already_authenticated"
        /\ task[t].creds = <<"j", "j">>
        /\ task[t].refreshCalls = 1

\* C36: an authenticate called with seller_id, api_key or api_secret missing
\* or empty ends at once with the error result: it goes on to
\* checkAuthentication only with all three present, and otherwise has made no
\* remote call, read no session and changed no entry of the token store.
C36_Step(t) ==
    LET tk == task[t]
        after == task'[t]
    IN  (Idle(t) /\ Moves(t) /\ after.name = "myntra_authenticate") =>
            /\ after.pc \in {"check", "done"}
            /\ after.pc = "check" =>
                  /\ after.seller # Absent
                  /\ after.creds[1] # Absent
                  /\ after.creds[2] # Absent
            /\ after.pc = "done" =>
                  /\ after.result = [kind |-> "auth_missing_args", isError |-> TRUE,
                                     thrown |-> FALSE, sellerId |-> Undefined,
                                     message |-> ""]
                  /\ after.refreshCalls = 0 /\ after.tokenCalls = 0
                  /\ after.apiCalls = 0
                  /\ after.tokens = Null /\ ~after.changed
                  /\ sellerTokens' = sellerTokens /\ redisStore' = redisStore

C36_MissingArgsRejected == [][\A t \in Tasks : C36_Step(t)]_vars

\* The account has a session and an authenticate for it without credentials
\* was rejected.
C36_Witness ==
    \E t \in Tasks :
        /\ task[t].pc = "done"
        /\ task[t].result.kind = "auth_missing_args"
        /\ task[t].seller = "S1"
        /\ HasAccess(GetTokens("S1"))

\* ------------------------------------------------------------ unlisted tool
\* C37: a call of a tool name that is not in the catalog never sends a
\* resource request; it ends with the seller_id validation error, with the
\* 'Not authenticated' error when checkAuthentication returned false, and
\* with a thrown 'Unknown operation' when it returned true; it changes the
\* account's entries only in the storeTokens or revokeTokens of the check's
\* refresh.
C37_Step(t) ==
    LET tk == task[t]
        after == task'[t]
    IN  (after.name = "myntra_unlisted" /\ Moves(t)) =>
            /\ after.apiCalls = 0
            /\ after.pc \notin {"api_get", "api_wait", "token", "store_issued"}
            /\ after.bearer = Undefined
            /\ after.pc = "done" =>
                  /\ after.seller = Absent =>
                        after.result.kind = "seller_id_required" /\ after.result.isError
                  /\ (after.seller # Absent /\ after.authed = "false") =>
                        /\ after.result.kind = "not_authenticated"
                        /\ after.result.isError /\ ~after.result.thrown
                        /\ ~after.handler
                  /\ (after.seller # Absent /\ after.authed = "true") =>
                        /\ after.result.thrown
                        /\ after.result.message = "Unknown operation"
                  /\ after.seller # Absent => after.authed \in {"true", "false"}
            /\ (tk.name = "myntra_unlisted" /\ tk.seller \in Sellers
                /\ EntriesAfter(tk.seller) # Entries(tk.seller)) =>
                  /\ tk.refreshCalls = 1
                  /\ tk.pc \in {"store", "revoke"}

C37_UnlistedToolSendsNothing == [][\A t \in Tasks : C37_Step(t)]_vars

\* An authenticated account's call of an unlisted tool ended with the thrown
\* 'Unknown operation'.
C37_Witness ==
    \E t \in Tasks :
        /\ task[t].pc = "done"
        /\ task[t].name = "myntra_unlisted"
        /\ task[t].authed = "true"
        /\ task[t].result.message = "Unknown operation"

\* ------------------------------------------------------------ no expiry
\* C38: a checkAuthentication that reads a session whose expiresOn is absent
\* or zero does not return true at once, and the session an authenticate
\* stored from an answer with expires_in 0 or without expires_in makes the
\* client's next checkAuthentication for the account post a refresh.
C38_Step(t) ==
    LET tk == task[t]
        after == task'[t]
        tokens == GetTokens(tk.seller)
        created == tk.prior.created
    IN  /\ (/\ tk.pc = "check" /\ Moves(t)
            /\ tokens # Null
            /\ ~Truthy(tokens.expiresOn)) =>
                /\ after.authed # "true"
                /\ after.pc # "api_get"
        /\ (/\ tk.pc = "check" /\ Moves(t)
            /\ tk.prior.tag = "authenticated"
            /\ tk.prior.seller = tk.seller
            /\ HasAccess(created)
            \* expires_in absent, or 0 in an answer at the first instant
            /\ created.expiresOn \in {NaN, Num(MsPerSec)}) =>
                /\ after.pc = "refresh"
                /\ after.refreshCalls = 1

C38_NoExpiryAlwaysRefreshes == [][\A t \in Tasks : C38_Step(t)]_vars

\* ----------------------------------------------------------- stdio variant
\* C39: on a server without REDIS_URL every step of a tool call is a step of
\* the stdio variant from the same state: the dispatch, checkAuthentication,
\* makeApiRequest and the handlers are the same code in both, each getTokens
\* returns what the stdio getTokens returns, and each storeTokens and
\* revokeTokens changes the session map as the stdio one does and nothing
\* else.
C39_Step(t) ==
    LET tk == task[t]
    IN  Moves(t) =>
            /\ tk.pc \in {"check", "api_get"} =>
                  /\ GetTokens(tk.seller) = StdioGetTokens(tk.seller)
                  /\ sellerTokens' = sellerTokens
            /\ tk.pc \in {"store", "store_issued"} =>
                  StdioStoreTokens(tk.seller, tk.pending)
            /\ tk.pc = "revoke" => StdioRevokeTokens(tk.seller)
            /\ tk.pc \in {"idle", "done", "refresh", "token", "api_wait"} =>
                  sellerTokens' = sellerTokens
            /\ redisStore' = [s \in Sellers |-> Null]

C39_StdioEquivalent == [][\A t \in Tasks : C39_Step(t)]_vars

\* A tool call refreshed the session, stored it and sent its request.
C39_Witness ==
    \E t \in Tasks :
        /\ ~redis
        /\ task[t].pc = "done"
        /\ task[t].name = "myntra_list_products"
        /\ task[t].refreshCalls = 1
        /\ task[t].apiCalls = 1
        /\ sellerTokens[task[t].seller] # Null

====
